---- MODULE Spec2Model ----
(***************************************************************************)
(* Fixed-size-binary page decoding of polars-parquet                       *)
(* (crates/polars-parquet/src/arrow/read/deserialize/fixed_size_binary.rs) *)
(* as a state machine: a BinaryDecoder of element width `size`, the        *)
(* dictionary of the column chunk, the StateTranslation cursor of the      *)
(* current page with its page validity, and the accumulating DecodedState  *)
(* (value buffer, validity bitmap).                                        *)
(***************************************************************************)
EXTENDS Integers, Sequences, FiniteSets, TLC

VARIABLES
    size,           \* BinaryDecoder.size
    hasDict,        \* a dictionary page was deserialized for this chunk
    dict,           \* Decoder::Dict = Vec<u8>
    translation,    \* StateTranslation of the current page: [tag, v]
    page_validity,  \* Option<PageValidity>: [present, bits]
    values,         \* DecodedState.0.values : Vec<u8>
    validity,       \* DecodedState.1 : MutableBitmap
    resolved,       \* the &[u8] last returned by hybridrle_to_target
    result,         \* outcome of the last call
    call,           \* the last call and its arguments: [op, n, enc]
    pages           \* data pages of the chunk opened so far

vars == <<size, hasDict, dict, translation, page_validity, values, validity,
          resolved, result, call, pages>>

----------------------------------------------------------------------------
(* Bounds of the model *)

MaxSize == 2
MaxDictLen == 3
MaxPages == 2
MaxPageElems == 2
MaxValidity == 3
MaxIndex == 1
MaxElems == 3
MaxN == 1

----------------------------------------------------------------------------
(* Helpers for slices and vectors *)

Min(a, b) == IF a < b THEN a ELSE b

\* &s[..n]
Take(s, n) == SubSeq(s, 1, n)

\* &s[n..]
Drop(s, n) == SubSeq(s, n + 1, Len(s))

\* n copies of x
Repeat(x, n) == [i \in 1..n |-> x]

\* Vec::resize(new_len, fill)
resize(target, new_len, fill) ==
    IF new_len <= Len(target)
    THEN Take(target, new_len)
    ELSE target \o Repeat(fill, new_len - Len(target))

\* length of the leading run of equal items of s, at most limit
RECURSIVE RunLength(_, _)
RunLength(s, limit) ==
    IF limit = 0 \/ s = <<>> THEN 0
    ELSE IF Len(s) >= 2 /\ limit >= 2 /\ s[2] = s[1]
         THEN 1 + RunLength(Tail(s), limit - 1)
         ELSE 1

----------------------------------------------------------------------------
(* Inputs *)

Sizes == 1..MaxSize

\* the bytes 1, 2, ..., len: every byte distinct and none zero
Bytes(len) == [i \in 1..len |-> i]

DictBuffers == { Bytes(len) : len \in 0..MaxDictLen }

\* the value bytes of a Plain page of at most MaxPageElems elements of some size
PlainPages == { Bytes(len) : len \in 0..(MaxPageElems * MaxSize) }

RECURSIVE SeqsUpTo(_, _)
SeqsUpTo(S, n) ==
    IF n = 0 THEN { <<>> }
    ELSE LET shorter == SeqsUpTo(S, n - 1)
         IN  shorter \cup { Append(s, x) : s \in shorter, x \in S }

IndexStreams == SeqsUpTo(0..MaxIndex, MaxPageElems)

ValidityStreams == { b \in SeqsUpTo(BOOLEAN, MaxValidity) : Len(b) = MaxValidity }

Encodings == {"Plain", "PlainDictionary", "RleDictionary", "DeltaByteArray"}

NoTranslation == [tag |-> "None", v |-> <<>>]

NoValidity == [present |-> FALSE, bits |-> <<>>]

PageValidities ==
    { NoValidity } \cup { [present |-> TRUE, bits |-> b] : b \in ValidityStreams }

Call(op, n, enc) == [op |-> op, n |-> n, enc |-> enc]

----------------------------------------------------------------------------
(* StateTranslation *)

\* utils::not_implemented(page): the error of an unsupported encoding
not_implemented == "NotImplemented"

\* the divisibility check of a Plain page left out
StateTranslationNew_unchecked(sz, encoding, dictGiven, page_values) ==
    IF encoding = "Plain"
    THEN [result |-> "Ok", t |-> [tag |-> "Plain", v |-> page_values]]
    ELSE IF encoding \in {"PlainDictionary", "RleDictionary"} /\ dictGiven
         THEN [result |-> "Ok", t |-> [tag |-> "Dictionary", v |-> page_values]]
         ELSE [result |-> not_implemented, t |-> NoTranslation]

\* a dictionary-encoded page accepted without looking for its dictionary
StateTranslationNew_anydict(sz, encoding, dictGiven, page_values) ==
    IF encoding = "Plain"
    THEN IF Len(page_values) % sz # 0
         THEN [result |-> "OutOfSpec", t |-> NoTranslation]
         ELSE [result |-> "Ok", t |-> [tag |-> "Plain", v |-> page_values]]
    ELSE IF encoding \in {"PlainDictionary", "RleDictionary"}
         THEN [result |-> "Ok", t |-> [tag |-> "Dictionary", v |-> page_values]]
         ELSE [result |-> not_implemented, t |-> NoTranslation]

\* StateTranslation::new: `values` is what split_buffer / dict_indices_decoder
\* hand back for the page, dictGiven is dict.is_some()
StateTranslationNew(sz, encoding, dictGiven, page_values) ==
    IF encoding = "Plain"
    THEN IF Len(page_values) % sz # 0
         THEN [result |-> "OutOfSpec", t |-> NoTranslation]
         ELSE [result |-> "Ok", t |-> [tag |-> "Plain", v |-> page_values]]
    ELSE IF encoding \in {"PlainDictionary", "RleDictionary"} /\ dictGiven
         THEN [result |-> "Ok", t |-> [tag |-> "Dictionary", v |-> page_values]]
         ELSE [result |-> not_implemented, t |-> NoTranslation]

\* StateTranslation::len_when_not_nullable
len_when_not_nullable(t, sz) ==
    IF t.tag = "Plain" THEN Len(t.v) \div sz ELSE Len(t.v)

\* HybridRleDecoder::skip_in_place: drops the next n indices
HybridRleDecoder_skip_in_place(indices, n) == Drop(indices, Min(n, Len(indices)))

\* StateTranslation::skip_in_place
skip_in_place(t, sz, n) ==
    IF n = 0 THEN t
    ELSE IF t.tag = "Plain"
         THEN [t EXCEPT !.v = Drop(t.v, Min(Len(t.v), n * sz))]
         ELSE [t EXCEPT !.v = HybridRleDecoder_skip_in_place(t.v, n)]

----------------------------------------------------------------------------
(* FixedSizeBinaryCollector (the Plain source) *)

\* the bytes are copied but the cursor is not advanced
push_n_stale(target, slice, sz, n) ==
    LET k == Min(n, Len(slice) \div sz)
    IN  [target |-> target \o Take(slice, k * sz), slice |-> slice]

\* FixedSizeBinaryCollector::push_n
push_n(target, slice, sz, n) ==
    LET k == Min(n, Len(slice) \div sz)
    IN  [target |-> target \o Take(slice, k * sz), slice |-> Drop(slice, k * sz)]

\* n bytes of placeholder instead of n elements
push_n_nulls_bytes(target, sz, n) == resize(target, Len(target) + n, 0)

\* FixedSizeBinaryCollector::push_n_nulls
push_n_nulls(target, sz, n) == resize(target, Len(target) + n * sz, 0)

----------------------------------------------------------------------------
(* FixedSizeBinaryGatherer (the Dictionary source) *)

\* FixedSizeBinaryGatherer::target_reserve: capacity only
target_reserve(target, sz, n) == target

\* FixedSizeBinaryGatherer::target_num_elements
target_num_elements(target, sz) == Len(target) \div sz

\* FixedSizeBinaryGatherer::hybridrle_to_target: the slice of the dictionary
\* for an index; slicing past the end of the dictionary panics
hybridrle_to_target(d, sz, value) ==
    IF value * sz >= Len(d)
    THEN [status |-> "OutOfSpec", value |-> <<>>]
    ELSE IF (value + 1) * sz > Len(d)
         THEN [status |-> "Panic", value |-> <<>>]
         ELSE [status |-> "Ok", value |-> SubSeq(d, value * sz + 1, (value + 1) * sz)]

\* FixedSizeBinaryGatherer::gather_one
gather_one(target, value) == target \o value

\* for _ in 0..=n
RECURSIVE gather_repeated_inclusive(_, _, _)
gather_repeated_inclusive(target, value, n) ==
    IF n = 0 THEN target \o value
    ELSE gather_repeated_inclusive(target \o value, value, n - 1)

\* FixedSizeBinaryGatherer::gather_repeated: for _ in 0..n { target.extend(value) }
RECURSIVE gather_repeated(_, _, _)
gather_repeated(target, value, n) ==
    IF n = 0 THEN target
    ELSE gather_repeated(target \o value, value, n - 1)

\* HybridRleDecoder::gather_n_into: the next n indices (or as many as remain),
\* a run of one index through gather_one, a longer run through gather_repeated;
\* stops at the first index that does not resolve
RECURSIVE gather_n_into(_, _, _, _, _)
gather_n_into(target, indices, n, d, sz) ==
    IF n = 0 \/ indices = <<>>
    THEN [target |-> target, indices |-> indices, result |-> "Ok"]
    ELSE LET r   == RunLength(indices, n)
             res == hybridrle_to_target(d, sz, indices[1])
         IN  IF res.status # "Ok"
             THEN [target |-> target, indices |-> indices, result |-> res.status]
             ELSE gather_n_into(
                      IF r = 1 THEN gather_one(target, res.value)
                               ELSE gather_repeated(target, res.value, r),
                      Drop(indices, r), n - r, d, sz)

\* let null_value = &dict[..self.size]
null_value(d, sz) ==
    IF sz > Len(d)
    THEN [status |-> "Panic", value |-> <<>>]
    ELSE [status |-> "Ok", value |-> Take(d, sz)]

----------------------------------------------------------------------------
(* Null-merge engine *)

PlainCollector(slice, sz) ==
    [kind |-> "Plain", slice |-> slice, size |-> sz, dict |-> <<>>, null |-> <<>>]

\* GatheredHybridRle::new(page_values, &gatherer, null_value)
GatheredHybridRle(indices, d, sz, null) ==
    [kind |-> "Dictionary", slice |-> indices, size |-> sz, dict |-> d, null |-> null]

\* BatchableCollector::push_n of the collector at hand
collector_push_n(c, target, n) ==
    IF c.kind = "Plain"
    THEN LET r == push_n(target, c.slice, c.size, n)
         IN  [c |-> [c EXCEPT !.slice = r.slice], target |-> r.target,
              result |-> "Ok"]
    ELSE LET r == gather_n_into(target, c.slice, n, c.dict, c.size)
         IN  [c |-> [c EXCEPT !.slice = r.indices], target |-> r.target,
              result |-> r.result]

\* BatchableCollector::push_n_nulls of the collector at hand
collector_push_n_nulls(c, target, n) ==
    IF c.kind = "Plain"
    THEN [c |-> c, target |-> push_n_nulls(target, c.size, n), result |-> "Ok"]
    ELSE [c |-> c, target |-> gather_repeated(target, c.null, n), result |-> "Ok"]

\* utils::extend_from_decoder: `limit` positions of the validity stream, run
\* by run: the bitmap grows by the run, the collector pushes the run's values
\* or nulls; a validity stream that ends early fails fast
RECURSIVE extend_from_decoder(_, _, _, _, _)
extend_from_decoder(bitmap, bits, limit, target, c) ==
    IF limit = 0
    THEN [validity |-> bitmap, bits |-> bits, target |-> target, c |-> c,
          result |-> "Ok"]
    ELSE IF bits = <<>>
    THEN [validity |-> bitmap, bits |-> bits, target |-> target, c |-> c,
          result |-> "Panic"]
    ELSE LET r    == RunLength(bits, limit)
             step == IF bits[1] THEN collector_push_n(c, target, r)
                                ELSE collector_push_n_nulls(c, target, r)
         IN  IF step.result # "Ok"
             THEN [validity |-> bitmap, bits |-> bits, target |-> step.target,
                   c |-> step.c, result |-> step.result]
             ELSE extend_from_decoder(bitmap \o Repeat(bits[1], r), Drop(bits, r),
                                      limit - r, step.target, step.c)

----------------------------------------------------------------------------
(* Decoder for BinaryDecoder *)

\* Decoder::with_capacity: an empty state (the capacity is not observable)
with_capacity(sz, capacity) == [values |-> <<>>, validity |-> <<>>]

\* Decoder::deserialize_dict: page.buffer.into_vec()
deserialize_dict(buffer) == buffer

\* Decoder::decode_plain_encoded
decode_plain_encoded(sz, vals, bitmap, page_values, pv, limit) ==
    IF ~pv.present
    THEN LET r == push_n(vals, page_values, sz, sz)
         IN  [values |-> r.target, validity |-> bitmap, v |-> r.slice,
              bits |-> pv.bits, result |-> "Ok"]
    ELSE LET r == extend_from_decoder(bitmap, pv.bits, limit, vals,
                                      PlainCollector(page_values, sz))
         IN  [values |-> r.target, validity |-> r.validity, v |-> r.c.slice,
              bits |-> r.bits, result |-> r.result]

\* Decoder::decode_dictionary_encoded
decode_dictionary_encoded(sz, vals, bitmap, page_values, pv, d, limit) ==
    LET null == null_value(d, sz)
    IN  IF null.status # "Ok"
        THEN [values |-> vals, validity |-> bitmap, v |-> page_values,
              bits |-> pv.bits, result |-> null.status]
        ELSE IF ~pv.present
        THEN LET r == gather_n_into(vals, page_values, limit, d, sz)
             IN  [values |-> r.target, validity |-> bitmap, v |-> r.indices,
                  bits |-> pv.bits, result |-> r.result]
        ELSE LET r == extend_from_decoder(bitmap, pv.bits, limit, vals,
                          GatheredHybridRle(page_values, d, sz, null.value))
             IN  [values |-> r.target, validity |-> r.validity, v |-> r.c.slice,
                  bits |-> r.bits, result |-> r.result]

\* StateTranslation::extend_from_state
extend_from_state(t, sz, d, vals, bitmap, pv, additional) ==
    IF t.tag = "Plain"
    THEN decode_plain_encoded(sz, vals, bitmap, t.v, pv, additional)
    ELSE decode_dictionary_encoded(sz, vals, bitmap, t.v, pv, d, additional)

\* NestedDecoder::validity_extend
validity_extend(bitmap, value, n) == bitmap \o Repeat(value, n)

\* resize to n elements instead of growing by n elements
values_extend_nulls_absolute(vals, sz, n) == resize(vals, n * sz, 0)

\* NestedDecoder::values_extend_nulls
values_extend_nulls(vals, sz, n) == resize(vals, Len(vals) + n * sz, 0)

----------------------------------------------------------------------------
(* The decoding of a column chunk: the calls the page orchestration makes *)

Init ==
    /\ size \in Sizes
    /\ hasDict = FALSE
    /\ dict = <<>>
    /\ translation = NoTranslation
    /\ page_validity = NoValidity
    /\ values = with_capacity(size, 0).values
    /\ validity = with_capacity(size, 0).validity
    /\ resolved = <<>>
    /\ result = "Ok"
    /\ call = Call("with_capacity", 0, "")
    /\ pages = 0

\* a new DecodedState for the next batch
WithCapacity(capacity) ==
    /\ result # "Panic"
    /\ values' = with_capacity(size, capacity).values
    /\ validity' = with_capacity(size, capacity).validity
    /\ result' = "Ok"
    /\ call' = Call("with_capacity", 0, "")
    /\ UNCHANGED <<size, hasDict, dict, translation, page_validity, resolved, pages>>

\* the dictionary page of the chunk
DeserializeDict(buffer) ==
    /\ result # "Panic"
    /\ ~hasDict
    /\ hasDict' = TRUE
    /\ dict' = deserialize_dict(buffer)
    /\ result' = "Ok"
    /\ call' = Call("deserialize_dict", 0, "")
    /\ UNCHANGED <<size, translation, page_validity, values, validity, resolved, pages>>

\* the next data page: its encoding, its value bytes or indices, its validity
New(encoding, page_values, pv) ==
    /\ result # "Panic"
    /\ pages < MaxPages
    /\ pages' = pages + 1
    /\ LET r == StateTranslationNew(size, encoding, hasDict, page_values)
       IN  /\ translation' = r.t
           /\ result' = r.result
           /\ page_validity' = IF r.result = "Ok" THEN pv ELSE NoValidity
    /\ call' = Call("new", Len(page_values), encoding)
    /\ UNCHANGED <<size, hasDict, dict, values, validity, resolved>>

SkipInPlace(n) ==
    /\ result # "Panic"
    /\ translation.tag # "None"
    /\ translation' = skip_in_place(translation, size, n)
    /\ result' = "Ok"
    /\ call' = Call("skip_in_place", n, "")
    /\ UNCHANGED <<size, hasDict, dict, page_validity, values, validity, resolved, pages>>

\* the caller asks for no more elements than the page validity holds
ExtendFromState(additional) ==
    /\ result # "Panic"
    /\ translation.tag # "None"
    /\ page_validity.present => additional <= Len(page_validity.bits)
    /\ LET r == extend_from_state(translation, size, dict, values, validity,
                                  page_validity, additional)
       IN  /\ Len(r.values) <= MaxElems * size
           /\ Len(r.validity) <= MaxElems
           /\ values' = r.values
           /\ validity' = r.validity
           /\ translation' = [translation EXCEPT !.v = r.v]
           /\ page_validity' = [page_validity EXCEPT !.bits = r.bits]
           /\ result' = r.result
    /\ call' = Call("extend_from_state", additional, "")
    /\ UNCHANGED <<size, hasDict, dict, resolved, pages>>

ValidityExtend(value, n) ==
    /\ result # "Panic"
    /\ Len(validity) + n <= MaxElems
    /\ validity' = validity_extend(validity, value, n)
    /\ result' = "Ok"
    /\ call' = Call("validity_extend", n, "")
    /\ UNCHANGED <<size, hasDict, dict, translation, page_validity, values, resolved, pages>>

ValuesExtendNulls(n) ==
    /\ result # "Panic"
    /\ Len(values) + n * size <= MaxElems * size
    /\ values' = values_extend_nulls(values, size, n)
    /\ result' = "Ok"
    /\ call' = Call("values_extend_nulls", n, "")
    /\ UNCHANGED <<size, hasDict, dict, translation, page_validity, validity, resolved, pages>>

\* the pages of size-byte elements the model draws for an encoding
PageValues(encoding) ==
    IF encoding = "Plain"
    THEN { p \in PlainPages : Len(p) <= MaxPageElems * size }
    ELSE IndexStreams

\* the construction of the StateTranslation of each page of a chunk; the
\* page validity plays no part in it (line 33), the pages come without
NextNew ==
    \/ \E buffer \in DictBuffers : DeserializeDict(buffer)
    \/ \E encoding \in Encodings :
          \E page_values \in PageValues(encoding) :
             New(encoding, page_values, NoValidity)

SpecNew == Init /\ [][NextNew]_vars

\* the state once the StateTranslation of a page of a flat column is built:
\* a Plain page, or a dictionary-encoded page of a chunk with a dictionary,
\* with or without page validity, and an empty DecodedState
InitPage ==
    /\ size \in Sizes
    /\ \E encoding \in {"Plain", "RleDictionary"} :
          /\ hasDict = (encoding # "Plain")
          /\ dict \in (IF hasDict THEN { deserialize_dict(b) : b \in DictBuffers }
                                  ELSE { <<>> })
          /\ \E page_values \in PageValues(encoding) :
                LET r == StateTranslationNew(size, encoding, hasDict, page_values)
                IN  /\ r.result = "Ok"
                    /\ translation = r.t
                    /\ call = Call("new", Len(page_values), encoding)
    /\ page_validity \in PageValidities
    /\ values = with_capacity(size, 0).values
    /\ validity = with_capacity(size, 0).validity
    /\ resolved = <<>>
    /\ result = "Ok"
    /\ pages = 1

\* the decoding of the page: skips and extractions
Next ==
    \/ \E n \in 0..MaxN : SkipInPlace(n)
    \/ \E additional \in 0..MaxValidity : ExtendFromState(additional)

Spec == InitPage /\ [][Next]_vars

\* a nested column: pages come without page validity, the nested builder
\* drives the validity and the null placeholders through the hooks
NextNested ==
    \/ \E capacity \in 0..MaxN : WithCapacity(capacity)
    \/ \E buffer \in DictBuffers : DeserializeDict(buffer)
    \/ \E encoding \in Encodings :
          \E page_values \in PageValues(encoding) :
             New(encoding, page_values, NoValidity)
    \/ \E n \in 0..MaxN : SkipInPlace(n)
    \/ \E additional \in 0..MaxValidity : ExtendFromState(additional)
    \/ \E value \in BOOLEAN, n \in 0..MaxN : ValidityExtend(value, n)
    \/ \E n \in 0..MaxN : ValuesExtendNulls(n)

SpecNested == Init /\ [][NextNested]_vars

----------------------------------------------------------------------------
(* The gatherer on its own: the calls HybridRleDecoder makes on it *)

InitGather ==
    /\ size \in Sizes
    /\ hasDict = TRUE
    /\ dict \in DictBuffers
    /\ translation = NoTranslation
    /\ page_validity = NoValidity
    /\ values = <<>>
    /\ validity = <<>>
    /\ resolved = <<>>
    /\ result = "Ok"
    /\ call = Call("gatherer", 0, "")
    /\ pages = 0

HybridRleToTarget(value) ==
    /\ result # "Panic"
    /\ LET r == hybridrle_to_target(dict, size, value)
       IN  /\ result' = r.status
           /\ resolved' = r.value
    /\ call' = Call("hybridrle_to_target", value, "")
    /\ UNCHANGED <<size, hasDict, dict, translation, page_validity, values, validity, pages>>

GatherOne ==
    /\ result = "Ok"
    /\ resolved # <<>>
    /\ Len(values) + size <= MaxElems * size
    /\ values' = gather_one(values, resolved)
    /\ call' = Call("gather_one", 1, "")
    /\ UNCHANGED <<size, hasDict, dict, translation, page_validity, validity, resolved, result, pages>>

GatherRepeated(n) ==
    /\ result = "Ok"
    /\ resolved # <<>>
    /\ Len(values) + n * size <= MaxElems * size
    /\ values' = gather_repeated(values, resolved, n)
    /\ call' = Call("gather_repeated", n, "")
    /\ UNCHANGED <<size, hasDict, dict, translation, page_validity, validity, resolved, result, pages>>

TargetReserve(n) ==
    /\ result # "Panic"
    /\ values' = target_reserve(values, size, n)
    /\ call' = Call("target_reserve", n, "")
    /\ UNCHANGED <<size, hasDict, dict, translation, page_validity, validity, resolved, result, pages>>

TargetNumElements ==
    /\ result # "Panic"
    /\ call' = Call("target_num_elements", target_num_elements(values, size), "")
    /\ UNCHANGED <<size, hasDict, dict, translation, page_validity, values, validity, resolved, result, pages>>

NextGather ==
    \/ \E value \in 0..MaxDictLen : HybridRleToTarget(value)
    \/ GatherOne
    \/ \E n \in 0..MaxElems : GatherRepeated(n)
    \/ \E n \in 0..MaxN : TargetReserve(n)
    \/ TargetNumElements

SpecGather == InitGather /\ [][NextGather]_vars

----------------------------------------------------------------------------
(* Properties *)

IsPrefix(s, t) == Len(s) <= Len(t) /\ SubSeq(t, 1, Len(s)) = s

\* the valid positions among bits
CountValid(bits) == Cardinality({ i \in DOMAIN bits : bits[i] })

\* the i-th value a cursor holds: a chunk of a Plain page, or the dictionary
\* element of the i-th index
SourceValue(t, d, sz, i) ==
    IF t.tag = "Plain"
    THEN SubSeq(t.v, (i - 1) * sz + 1, i * sz)
    ELSE SubSeq(d, t.v[i] * sz + 1, (t.v[i] + 1) * sz)

\* the cursor holds a value for each valid position among bits
Backed(t, sz, bits) == CountValid(bits) <= len_when_not_nullable(t, sz)

\* ... and, for an index cursor, each of these indices is one of the whole
\* elements of the dictionary
Supplied(t, d, sz, bits) ==
    /\ Backed(t, sz, bits)
    /\ t.tag = "Dictionary" =>
          \A i \in 1..CountValid(bits) : t.v[i] < Len(d) \div sz

\* position by position: the next source value at a valid position, the
\* placeholder at a null position
RECURSIVE Interleaved(_, _, _, _, _, _)
Interleaved(bits, t, d, sz, next, null) ==
    IF bits = <<>> THEN <<>>
    ELSE IF bits[1]
         THEN SourceValue(t, d, sz, next)
                  \o Interleaved(Tail(bits), t, d, sz, next + 1, null)
         ELSE null \o Interleaved(Tail(bits), t, d, sz, next, null)

\* gather_one, n times in sequence
RECURSIVE GatherOneTimes(_, _, _)
GatherOneTimes(target, value, n) ==
    IF n = 0 THEN target
    ELSE gather_one(GatherOneTimes(target, value, n - 1), value)

\* C1: Plain round-trip. An extraction from a Plain cursor of k elements into
\* an empty DecodedState, without page validity and with limit = k, appends
\* exactly the k elements and leaves the cursor empty.
C1_PlainRoundTrip ==
    [][ ( /\ call'.op = "extend_from_state"
          /\ translation.tag = "Plain"
          /\ ~page_validity.present
          /\ values = <<>> /\ validity = <<>>
          /\ call'.n = len_when_not_nullable(translation, size) )
        => ( /\ result' = "Ok"
             /\ values' = translation.v
             /\ translation'.v = <<>> ) ]_vars

\* C2 as stated: every successful extraction, with or without page validity,
\* keeps value_buffer.len() = size * validity.len() and a whole number of
\* elements in the value buffer (taken on the extractions that ask for at
\* least one element).
C2_LengthInvariant ==
    [][ ( /\ call'.op = "extend_from_state"
          /\ call'.n >= 1
          /\ result' = "Ok"
          /\ Len(values) = size * Len(validity) )
        => ( /\ Len(values') = size * Len(validity')
             /\ Len(values') % size = 0 ) ]_vars

\* C2 amended: every successful extraction leaves a whole number of elements
\* in the value buffer; one with page validity whose valid positions are all
\* backed by source values appends as many elements as validity bits, so it
\* keeps value_buffer.len() = size * validity.len(); one without page validity
\* appends no validity bit.
C2_LengthInvariantAmended ==
    [][ ( /\ call'.op = "extend_from_state"
          /\ result' = "Ok" )
        => ( /\ Len(values') % size = 0
             /\ ( /\ page_validity.present
                  /\ Backed(translation, size, Take(page_validity.bits, call'.n)) )
                => ( /\ Len(validity') = Len(validity) + call'.n
                     /\ Len(values') = Len(values) + size * call'.n )
             /\ ~page_validity.present => validity' = validity ) ]_vars

C2_Witness ==
    /\ call.op = "extend_from_state"
    /\ result = "Ok"
    /\ page_validity.present
    /\ call.n >= 2
    /\ Len(validity) >= 2
    /\ \E i, j \in DOMAIN validity : validity[i] /\ ~validity[j]
    /\ Len(values) = size * Len(validity)

\* C3 as stated: an extraction with page validity appends `limit` validity
\* bits and `limit` elements in validity order, the next source value at each
\* valid position and size zero bytes at each null position, whether the
\* source is the Plain cursor or the dictionary-index cursor (taken on the
\* dictionaries that hold at least one element).
C3_NullInterleaving ==
    [][ ( /\ call'.op = "extend_from_state"
          /\ page_validity.present
          /\ Supplied(translation, dict, size, Take(page_validity.bits, call'.n))
          /\ translation.tag = "Dictionary" => Len(dict) >= size )
        => ( /\ result' = "Ok"
             /\ validity' = validity \o Take(page_validity.bits, call'.n)
             /\ values' = values \o Interleaved(Take(page_validity.bits, call'.n),
                                        translation, dict, size, 1,
                                        Repeat(0, size)) ) ]_vars

\* C3 amended: as C3, but the chunk at a null position is size zero bytes for
\* the Plain cursor and a copy of the dictionary's first element dict[..size]
\* for the dictionary-index cursor (whose dictionary holds that element).
C3_NullInterleavingAmended ==
    [][ ( /\ call'.op = "extend_from_state"
          /\ page_validity.present
          /\ Supplied(translation, dict, size, Take(page_validity.bits, call'.n))
          /\ translation.tag = "Dictionary" => Len(dict) >= size )
        => ( /\ result' = "Ok"
             /\ validity' = validity \o Take(page_validity.bits, call'.n)
             /\ values' = values \o Interleaved(Take(page_validity.bits, call'.n),
                                        translation, dict, size, 1,
                                        IF translation.tag = "Plain"
                                        THEN Repeat(0, size)
                                        ELSE Take(dict, size)) ) ]_vars

\* value, null, value through the dictionary: the null slot holds dict[..size]
C3_Witness ==
    /\ call.op = "extend_from_state"
    /\ call.n = 3
    /\ result = "Ok"
    /\ translation.tag = "Dictionary"
    /\ size = 1
    /\ validity = <<TRUE, FALSE, TRUE>>
    /\ values = <<2, 1, 1>>

\* C4: Out-of-range rejection. With m = dict.len() div size, the gatherer's
\* hybridrle_to_target fails with OutOfSpec for every index >= m, returns
\* dict[index*size .. (index+1)*size] for every index < m, and leaves the
\* target untouched.
C4_OutOfRangeRejection ==
    [][ call'.op = "hybridrle_to_target"
        => LET m == Len(dict) \div size
           IN  /\ values' = values
               /\ call'.n >= m => result' = "OutOfSpec"
               /\ call'.n < m =>
                     /\ result' = "Ok"
                     /\ resolved' = SubSeq(dict, call'.n * size + 1,
                                           (call'.n + 1) * size) ]_vars

\* C5: Skip/extract consistency. Without page validity, skip_in_place(n) then
\* an extraction with limit m into an empty DecodedState gives the value
\* buffer of an extraction with limit n+m with its first n elements dropped,
\* and the same cursor.
C5_SkipExtractConsistency ==
    translation.tag # "None" =>
        \A n \in 0..MaxN, m \in 0..MaxN :
           LET skipped == skip_in_place(translation, size, n)
               a == extend_from_state(skipped, size, dict, <<>>, <<>>,
                                      NoValidity, m)
               b == extend_from_state(translation, size, dict, <<>>, <<>>,
                                      NoValidity, n + m)
           IN  (a.result = "Ok" /\ b.result = "Ok")
                  => (a.values = Drop(b.values, n * size) /\ a.v = b.v)

C7_UnsupportedRejected ==
    /\ translation.tag = "Dictionary" => hasDict
    /\ call.op = "new" =>
          IF \/ call.enc = "Plain"
             \/ call.enc \in {"PlainDictionary", "RleDictionary"} /\ hasDict
          THEN result # "NotImplemented"
          ELSE result = "NotImplemented" /\ translation = NoTranslation

C7_Witness ==
    /\ call.op = "new"
    /\ call.enc \in {"PlainDictionary", "RleDictionary"}
    /\ ~hasDict
    /\ result = "NotImplemented"
    /\ translation = NoTranslation

\* C8: gather_repeated(target, value, n) leaves the target as n calls of
\* gather_one(target, value) do; target_reserve and target_num_elements leave
\* its contents alone.
C8_GatherEquivalence ==
    [][ /\ call'.op = "gather_repeated"
           => values' = GatherOneTimes(values, resolved, call'.n)
        /\ call'.op \in {"target_reserve", "target_num_elements"}
           => values' = values ]_vars

C8_Witness ==
    /\ call.op = "gather_repeated"
    /\ call.n >= 2
    /\ resolved # <<>>
    /\ Len(values) >= (call.n + 1) * size

\* C9: decode_dictionary_encoded returns Ok or an OutOfSpec error for every
\* dictionary, index stream and limit; it never panics on a slice of the
\* dictionary.
C9_NeverAborts ==
    (call.op = "extend_from_state" /\ translation.tag = "Dictionary")
        => result \in {"Ok", "OutOfSpec"}

====
